---------------------------- MODULE Spec2Model ----------------------------
(***************************************************************************)
(* wiki-crawler (src/src/main.rs): a single forward pass over a wiki       *)
(* export.  PageBuffer cuts the line stream into <page>...</page> blocks,  *)
(* each block is decoded into a Page, TextFilter strips asides, templates  *)
(* and citations from the first revision, LinkExtractor returns the first  *)
(* link of the first prose line and run prints "title -> link".            *)
(*                                                                         *)
(* Text is modelled as a sequence of one-character strings; a line of the  *)
(* input file is a string naming the whole line.  The block a pull returns *)
(* is the sequence the code builds with `buf += &text; buf += "\n"`.       *)
(***************************************************************************)
EXTENDS Integers, Sequences, FiniteSets, TLC

VARIABLES
    input,   \* the reader: the outcome of each successive line read
    pos,     \* index of the next read of the reader
    item,    \* what the last PageBuffer::next returned
    items,   \* history: every Some(..) PageBuffer::next has returned so far
    out,     \* the lines printed by run, as <<title, link>> pairs
    pc,      \* where run stands: "pull", "handle", "done"; "fn" in the pure specs
    arg,     \* the text a pure function is applied to (pure specs)
    res      \* its result (pure specs)

vars == <<input, pos, item, items, out, pc, arg, res>>

(***************************************************************************)
(* Bounds of the model.                                                    *)
(***************************************************************************)
MaxLines == 5
MaxChunks == 3
MaxLink == 6
MaxText == 7

HistoryCap == MaxLines + MaxChunks + 1

(***************************************************************************)
(* Options and strings.                                                    *)
(***************************************************************************)
None == [some |-> FALSE, val |-> <<>>]
Some(v) == [some |-> TRUE, val |-> v]

StartsWith(s, p) == Len(s) >= Len(p) /\ SubSeq(s, 1, Len(p)) = p
EndsWith(s, p) == Len(s) >= Len(p) /\ SubSeq(s, Len(s) - Len(p) + 1, Len(s)) = p

REDIRECT == <<"#", "R", "E", "D", "I", "R", "E", "C", "T">>
DISAMBIGUATION == <<"(", "d", "i", "s", "a", "m", "b", "i", "g", "u", "a", "t", "i", "o",
    "n", ")">>

(***************************************************************************)
(* The reader.  A read returns a line, fails once (the line is consumed:   *)
(* a line that is not UTF-8), or fails on every attempt (the path is a     *)
(* directory: every read returns EISDIR and nothing is consumed).          *)
(***************************************************************************)
OkLine(t) == [r |-> "Ok", text |-> t]
ErrOnce == [r |-> "Err", text |-> "once"]
ErrAlways == [r |-> "Err", text |-> "always"]

\* str::trim on the lines of the model.
Trim(t) ==
    CASE t = "  <page>" -> "<page>"
      [] t = "\t</page> " -> "</page>"
      [] t = " x " -> "x"
      [] OTHER -> t

(***************************************************************************)
(* PageBuffer::next (main.rs 65-95).                                       *)
(***************************************************************************)
NoneItem == [tag |-> "None", buf |-> <<>>, via |-> "eof"]
ErrItem == [tag |-> "Err", buf |-> <<>>, via |-> "read"]
OkItem(buf, via) == [tag |-> "Ok", buf |-> buf, via |-> via]

\* A comparison that forgets the trim.
IsCloseUntrimmed(t) == t = "</page>"

IsOpen(t) == Trim(t) = "<page>"
IsClose(t) == Trim(t) = "</page>"

\* buf += &text; buf += "\n";
PushLine(buf, t) == buf \o <<t, "\n">>

\* The for loop of next from read i on, with the locals take and buf.
RECURSIVE NextLoop(_, _, _, _)
NextLoop(inp, i, take, buf) ==
    IF i > Len(inp)
    THEN [item |-> IF buf = <<>> THEN NoneItem ELSE OkItem(buf, "eof"), pos |-> i]
    ELSE LET line == inp[i] IN
         IF line.r = "Err"
         THEN [item |-> ErrItem, pos |-> IF line = ErrAlways THEN i ELSE i + 1]
         ELSE IF IsOpen(line.text)
         THEN NextLoop(inp, i + 1, TRUE, PushLine(buf, line.text))
         ELSE IF IsClose(line.text)
         THEN [item |-> OkItem(PushLine(buf, line.text), "close"), pos |-> i + 1]
         ELSE IF take
         THEN NextLoop(inp, i + 1, take, PushLine(buf, line.text))
         ELSE NextLoop(inp, i + 1, take, buf)

\* A pull whose take flag starts set.
PageBufferNextTaking(inp, p) == NextLoop(inp, p, TRUE, <<>>)

PageBufferNext(inp, p) == NextLoop(inp, p, FALSE, <<>>)


(***************************************************************************)
(* TextFilter (main.rs 105-120).  Each regex is modelled by the end of its *)
(* match at a given start (0: no match there), and replace_all by a left   *)
(* to right scan that deletes every leftmost non-overlapping match.        *)
(***************************************************************************)
\* Whether the literal lit occurs in s at index i.
At(s, i, lit) == i >= 1 /\ i + Len(lit) - 1 <= Len(s) /\ SubSeq(s, i, i + Len(lit) - 1) = lit

\* The lazy tail `.+?\)` once one character is taken: the next ")" before a newline.
RECURSIVE ParensTail(_, _)
ParensTail(s, j) ==
    IF j > Len(s) THEN 0
    ELSE IF s[j] = ")" THEN j
    ELSE IF s[j] = "\n" THEN 0
    ELSE ParensTail(s, j + 1)

\* The expression with .*? in place of .+?: an empty run matches.
ParensEndEmptyRun(s, i) ==
    IF s[i] # "(" THEN 0 ELSE ParensTail(s, i + 1)

\* parens: \(.+?\)
ParensEnd(s, i) ==
    IF s[i] # "(" THEN 0
    ELSE IF i + 1 > Len(s) \/ s[i + 1] = "\n" THEN 0
    ELSE ParensTail(s, i + 2)

\* The lazy tail `.*?\}\}` (with (?s): a newline is any character).
RECURSIVE BracesTail(_, _)
BracesTail(s, j) ==
    IF j + 1 > Len(s) THEN 0
    ELSE IF At(s, j, <<"}", "}">>) THEN j + 1
    ELSE BracesTail(s, j + 1)

\* braces: (?sm)\{\{.*?\}\}
BracesEnd(s, i) ==
    IF ~At(s, i, <<"{", "{">>) THEN 0 ELSE BracesTail(s, i + 2)

RefOpen == <<"<", "r", "e", "f", ">">>
RefClose == <<"<", "/", "r", "e", "f", ">">>

\* The lazy tail `.+?</ref>` once one character is taken.
RECURSIVE SourceTail(_, _)
SourceTail(s, j) ==
    IF j > Len(s) THEN 0
    ELSE IF At(s, j, RefClose) THEN j + Len(RefClose) - 1
    ELSE IF s[j] = "\n" THEN 0
    ELSE SourceTail(s, j + 1)

\* source: <ref>.+?</ref>
SourceEnd(s, i) ==
    IF ~At(s, i, RefOpen) THEN 0
    ELSE LET k == i + Len(RefOpen) IN
         IF k > Len(s) \/ s[k] = "\n" THEN 0 ELSE SourceTail(s, k + 1)

\* Regex::replace_all(text, "") for each of the three expressions.
RECURSIVE ReplaceParens(_, _)
ReplaceParens(s, i) ==
    IF i > Len(s) THEN <<>>
    ELSE LET e == ParensEnd(s, i) IN
         IF e = 0 THEN <<s[i]>> \o ReplaceParens(s, i + 1) ELSE ReplaceParens(s, e + 1)

RECURSIVE ReplaceBraces(_, _)
ReplaceBraces(s, i) ==
    IF i > Len(s) THEN <<>>
    ELSE LET e == BracesEnd(s, i) IN
         IF e = 0 THEN <<s[i]>> \o ReplaceBraces(s, i + 1) ELSE ReplaceBraces(s, e + 1)

RECURSIVE ReplaceSource(_, _)
ReplaceSource(s, i) ==
    IF i > Len(s) THEN <<>>
    ELSE LET e == SourceEnd(s, i) IN
         IF e = 0 THEN <<s[i]>> \o ReplaceSource(s, i + 1) ELSE ReplaceSource(s, e + 1)

\* TextFilter::filter: parens, then braces, then source, each pass on the
\* value of the pass before it (a singleton set holds that value).
Filter(text) ==
    LET parens == {ReplaceParens(t, 1) : t \in {text}}
        braces == {ReplaceBraces(t, 1) : t \in parens}
        source == {ReplaceSource(t, 1) : t \in braces}
    IN CHOOSE t \in source : TRUE

(***************************************************************************)
(* LinkExtractor (main.rs 127-155).                                        *)
(***************************************************************************)
Alphanumeric ==
    {"a", "b", "c", "d", "e", "f", "g", "h", "i", "j", "k", "l", "m", "n", "o", "p", "q",
     "r", "s", "t", "u", "v", "w", "x", "y", "z", "A", "B", "C", "D", "E", "F", "G", "H",
     "I", "J", "K", "L", "M", "N", "O", "P", "Q", "R", "S", "T", "U", "V", "W", "X", "Y",
     "Z", "0", "1", "2", "3", "4", "5", "6", "7", "8", "9"}

\* str::lines: split at "\n", drop one trailing "\r" of a line, no last empty line.
RECURSIVE SplitLines(_, _, _)
SplitLines(s, i, cur) ==
    LET strip(l) == IF l # <<>> /\ l[Len(l)] = "\r" THEN SubSeq(l, 1, Len(l) - 1) ELSE l IN
    IF i > Len(s) THEN (IF cur = <<>> THEN <<>> ELSE <<strip(cur)>>)
    ELSE IF s[i] = "\n" THEN <<strip(cur)>> \o SplitLines(s, i + 1, <<>>)
    ELSE SplitLines(s, i + 1, Append(cur, s[i]))

StrLines(s) == SplitLines(s, 1, <<>>)

\* A filter that keeps every line that is not empty.
AnyLine(line) == line # <<>>

\* text.starts_with(|u: char| u.is_alphanumeric() || u == '\'')
IsParagraph(line) == line # <<>> /\ (line[1] \in Alphanumeric \/ line[1] = "'")

\* Whether `(\|.+)?\]\]` matches from index k: the alias group, if it can be
\* taken, else directly the closing brackets.
RECURSIVE ClosesLater(_, _)
ClosesLater(line, q) ==
    IF q + 1 > Len(line) THEN FALSE
    ELSE At(line, q, <<"]", "]">>) \/ ClosesLater(line, q + 1)

\* The expression without its alias group.
LinkRestNoAlias(line, k) == At(line, k, <<"]", "]">>)

LinkRest(line, k) ==
    \/ (k <= Len(line) /\ line[k] = "|" /\ ClosesLater(line, k + 2))
    \/ At(line, k, <<"]", "]">>)

\* The lazy group `([^|]+?)` from index s, ending at e or further.
RECURSIVE TargetFrom(_, _, _)
TargetFrom(line, s, e) ==
    IF e > Len(line) \/ line[e] = "|" THEN None
    ELSE IF LinkRest(line, e + 1) THEN Some(SubSeq(line, s, e))
    ELSE TargetFrom(line, s, e + 1)

\* expr: \[\[([^|]+?)(\|.+)?\]\]  matched at index i: group 1, or None.
LinkAt(line, i) ==
    IF ~At(line, i, <<"[", "[">>) THEN None ELSE TargetFrom(line, i + 2, i + 2)

\* The first match of captures_iter(paragraph): the leftmost start that matches.
RECURSIVE FirstCapture(_, _)
FirstCapture(line, i) ==
    IF i > Len(line) THEN None
    ELSE LET m == LinkAt(line, i) IN
         IF m.some THEN m ELSE FirstCapture(line, i + 1)

\* The first candidate of the flat_map over the paragraphs.
RECURSIVE FirstCandidate(_, _)
FirstCandidate(ls, k) ==
    IF k > Len(ls) THEN None
    ELSE IF ~IsParagraph(ls[k]) THEN FirstCandidate(ls, k + 1)
    ELSE LET m == FirstCapture(ls[k], 1) IN
         IF m.some THEN m ELSE FirstCandidate(ls, k + 1)

\* LinkExtractor::extract: the first candidate over the lines of the text.
Extract(text) ==
    LET paragraphs == {StrLines(t) : t \in {text}}
        candidates == {FirstCandidate(ls, 1) : ls \in paragraphs}
    IN CHOOSE c \in candidates : TRUE

(***************************************************************************)
(* Page and its decoding (main.rs 19-38, 170).  serde_xml_rs is a library: *)
(* the model decodes the element lines below and rejects any block that is *)
(* not <page>, one title, revisions, </page>.                              *)
(***************************************************************************)
\* The <title> element lines of the model and the title each one holds.
XmlTitle(line) ==
    CASE line = "<title>Dog</title>" -> Some(<<"D", "o", "g">>)
      [] line = "<title>City</title>" -> Some(<<"C", "i", "t", "y">>)
      [] line = "<title>Foo (disambiguation)</title>" -> Some(<<"F", "o", "o", " ", "(",
          "d", "i", "s", "a", "m", "b", "i", "g", "u", "a", "t", "i", "o", "n", ")">>)
      [] line = "<title>(disambiguation) of Foo</title>" -> Some(<<"(", "d", "i", "s", "a",
          "m", "b", "i", "g", "u", "a", "t", "i", "o", "n", ")", " ", "o", "f", " ", "F",
          "o", "o">>)
      [] OTHER -> None

\* The <revision><text> element lines of the model and the text each one holds
\* (a line break inside a text is written &#10; in the file).
XmlText(line) ==
    CASE line = "<revision><text>'''Dog''' is a (domesticated) animal. See [[Canine]].</text></revision>"
            -> Some(<<"'", "'", "'", "D", "o", "g", "'", "'", "'", " ", "i", "s", " ", "a",
                " ", "(", "d", "o", "m", "e", "s", "t", "i", "c", "a", "t", "e", "d", ")",
                " ", "a", "n", "i", "m", "a", "l", ".", " ", "S", "e", "e", " ", "[", "[",
                "C", "a", "n", "i", "n", "e", "]", "]", ".">>)
      [] line = "<revision><text>The city <ref>cite.com</ref> hosts [[Event|events]].</text></revision>"
            -> Some(<<"T", "h", "e", " ", "c", "i", "t", "y", " ", "<", "r", "e", "f", ">",
                "c", "i", "t", "e", ".", "c", "o", "m", "<", "/", "r", "e", "f", ">", " ",
                "h", "o", "s", "t", "s", " ", "[", "[", "E", "v", "e", "n", "t", "|", "e",
                "v", "e", "n", "t", "s", "]", "]", ".">>)
      [] line = "<revision><text>#REDIRECT [[Bar]]&#10;See [[Baz]].</text></revision>"
            -> Some(<<"#", "R", "E", "D", "I", "R", "E", "C", "T", " ", "[", "[", "B", "a",
                "r", "]", "]", "\n", "S", "e", "e", " ", "[", "[", "B", "a", "z", "]", "]",
                ".">>)
      [] line = "<revision><text>{{Infobox}}&#10;[[Baz]] is notable.</text></revision>"
            -> Some(<<"{", "{", "I", "n", "f", "o", "b", "o", "x", "}", "}", "\n", "[",
                "[", "B", "a", "z", "]", "]", " ", "i", "s", " ", "n", "o", "t", "a", "b",
                "l", "e", ".">>)
      [] OTHER -> None

NoPage == [ok |-> FALSE, title |-> <<>>, revision |-> <<>>]

\* The lines of a block: every second element of buf is the "\n" pushed after a line.
BlockLines(buf) == [k \in 1..(Len(buf) \div 2) |-> buf[2 * k - 1]]

RECURSIVE Revisions(_, _)
Revisions(ls, k) ==
    IF k > Len(ls) THEN <<>>
    ELSE (IF XmlText(ls[k]).some THEN <<XmlText(ls[k]).val>> ELSE <<>>) \o Revisions(ls, k + 1)

\* xml::from_str::<Page>(&text)
FromStr(buf) ==
    LET ls == BlockLines(buf)
        n == Len(ls)
        titles == {k \in 2..(n - 1) : XmlTitle(ls[k]).some}
    IN IF /\ n >= 2
          /\ Trim(ls[1]) = "<page>"
          /\ Trim(ls[n]) = "</page>"
          /\ \A k \in 2..(n - 1) : XmlTitle(ls[k]).some \/ XmlText(ls[k]).some
          /\ Cardinality(titles) = 1
       THEN [ok |-> TRUE,
             title |-> XmlTitle(ls[CHOOSE k \in titles : TRUE]).val,
             revision |-> Revisions(ls, 1)]
       ELSE NoPage

\* The first revision, redirect or not.
PageTextAnyFirst(page) ==
    IF page.revision = <<>> THEN None ELSE Some(page.revision[1])

\* Page::text (main.rs 26-32)
PageText(page) ==
    IF page.revision = <<>> THEN None
    ELSE LET candidate == page.revision[1] IN
         IF ~StartsWith(candidate, REDIRECT) THEN Some(candidate) ELSE None

(***************************************************************************)
(* run (main.rs 164-182): the adaptor chain applied to one item of the     *)
(* PageBuffer, giving the records it prints for it (none or one).          *)
(***************************************************************************)
\* .filter_map(|text| xml::from_str::<Page>(&text.ok()?).ok())
DecodeItem(it) == IF it.tag = "Ok" THEN FromStr(it.buf) ELSE NoPage

\* A title filter that keeps every page.
KeepEveryTitle(page) == TRUE

\* .filter(|page| !page.title.ends_with("(disambiguation)"))
KeepTitle(page) == ~EndsWith(page.title, DISAMBIGUATION)

\* .filter_map(|page| ex.extract(&tf.filter(page.text()?)).map(|link| (page.title, link)))
LinkOf(page) ==
    LET t == PageText(page) IN
    IF ~t.some THEN None ELSE Extract(Filter(t.val))

Records(it) ==
    LET page == DecodeItem(it) IN
    IF ~page.ok THEN <<>>
    ELSE IF ~KeepTitle(page) THEN <<>>
    ELSE LET link == LinkOf(page) IN
         IF ~link.some THEN <<>> ELSE <<<<page.title, link.val>>>>

\* An output that grows at the front.
PrintlnFirst(o, recs) == recs \o o

\* println!("{title} -> {link}") appends to the output.
Println(o, recs) == o \o recs

(***************************************************************************)
(* The inputs of the model.                                                *)
(***************************************************************************)
\* Every sequence over S of length at most n.
SeqsUpTo(S, n) == UNION {[1..k -> S] : k \in 0..n}

\* Exhaustive short files over the lines the segmenter tells apart.
SegReads ==
    {OkLine("<page>"), OkLine("  <page>"), OkLine("</page>"), OkLine("\t</page> "),
     OkLine("x")}

SegInputs == SeqsUpTo(SegReads, MaxLines)

TitleDog == OkLine("<title>Dog</title>")
TitleCity == OkLine("<title>City</title>")
TitleDis == OkLine("<title>Foo (disambiguation)</title>")
TitleMid == OkLine("<title>(disambiguation) of Foo</title>")
RevDog ==
    OkLine("<revision><text>'''Dog''' is a (domesticated) animal. See [[Canine]].</text></revision>")
RevCity ==
    OkLine("<revision><text>The city <ref>cite.com</ref> hosts [[Event|events]].</text></revision>")
RevRedirect == OkLine("<revision><text>#REDIRECT [[Bar]]&#10;See [[Baz]].</text></revision>")
RevInfobox == OkLine("<revision><text>{{Infobox}}&#10;[[Baz]] is notable.</text></revision>")
Open == OkLine("<page>")
Close == OkLine("</page>")

\* Pieces of a file: whole pages, stray lines and failing reads.
Chunks ==
    {<<Open, TitleDog, RevDog, Close>>,
     <<OkLine("  <page>"), TitleMid, RevCity, RevRedirect, OkLine("\t</page> ")>>,
     <<Open, TitleDis, RevDog, Close>>,
     <<Open, TitleDog, RevRedirect, RevDog, Close>>,
     <<Open, TitleCity, RevInfobox, Close>>,
     <<Open, TitleDog, RevDog>>,
     <<OkLine("x")>>,
     <<Close>>,
     <<ErrOnce>>,
     <<ErrAlways>>}

RECURSIVE Concat(_)
Concat(cs) == IF cs = <<>> THEN <<>> ELSE Head(cs) \o Concat(Tail(cs))

RunInputs == {Concat(cs) : cs \in SeqsUpTo(Chunks, MaxChunks)}

(***************************************************************************)
(* The pipeline as a state machine: run pulls an item from the PageBuffer  *)
(* and passes it through the adaptor chain, until the PageBuffer is empty. *)
(***************************************************************************)
Init ==
    /\ input \in SegInputs \cup RunInputs
    /\ pos = 1
    /\ item = NoneItem
    /\ items = <<>>
    /\ out = <<>>
    /\ pc = "pull"
    /\ arg = <<>>
    /\ res = None

\* The for loop of run asks the chain for an item: PageBuffer::next is called.
Pull ==
    /\ pc = "pull"
    /\ LET r == PageBufferNext(input, pos) IN
       /\ pos' = r.pos
       /\ item' = r.item
       /\ items' = IF r.item.tag # "None" /\ Len(items) < HistoryCap
                   THEN Append(items, r.item) ELSE items
       /\ pc' = IF r.item.tag = "None" THEN "done" ELSE "handle"
    /\ UNCHANGED <<input, out, arg, res>>

\* The item goes through the chain and the loop body prints what is left.
Handle ==
    /\ pc = "handle"
    /\ out' = Println(out, Records(item))
    /\ pc' = "pull"
    /\ UNCHANGED <<input, pos, item, items, arg, res>>

Next == Pull \/ Handle

Spec == Init /\ [][Next]_vars

\* Termination is checked on the files of fewer pieces.
FairInit ==
    /\ Init
    /\ input \in {Concat(cs) : cs \in SeqsUpTo(Chunks, MaxChunks - 1)}

\* The loop of run is sequential code: it keeps running while it can.
FairSpec == FairInit /\ [][Next]_vars /\ WF_vars(Next)


(***************************************************************************)
(* The pure functions on their own: a text is drawn and the function is    *)
(* applied to it.                                                          *)
(***************************************************************************)
\* Line starts that decide whether and where a link is looked for.
LinkPrefixes ==
    {<<>>, <<"a", "[", "[">>, <<"'", "[", "[">>, <<"*", "[", "[">>, <<"[", "[", "b", "]",
        "]", "\n", "a", "[", "[">>, <<
        "*", "[", "[", "b", "|", "c", "]", "]", "\n">>, <<
        "a", "\n", ":", "[", "[", "b", "]", "]", "\n">>}

LinkTexts ==
    {<<"'", "'", "'", "D", "o", "g", "'", "'", "'", " ", "i", "s", " ", "a", " ", " ", "a",
        "n", "i", "m", "a", "l", ".", " ", "S", "e", "e", " ", "[", "[", "C", "a", "n",
        "i", "n", "e", "]", "]", ".">>,
     <<"[", "[", "T", "a", "r", "g", "e", "t", " ", "P", "a", "g", "e", "|", "d", "i", "s",
         "p", "l", "a", "y", "e", "d", " ", "t", "e", "x", "t", "]", "]">>,
     <<"S", "e", "e", " ", "[", "[", "T", "a", "r", "g", "e", "t", " ", "P", "a", "g", "e",
         "|", "d", "i", "s", "p", "l", "a", "y", "e", "d", " ", "t", "e", "x", "t", "]",
         "]", " ", "a", "n", "d", " ", "[", "[", "O", "t", "h", "e", "r", "|", "o", "]",
         "]", " ", "o", "r", " ", "[", "[", "T", "h", "i", "r", "d", "]", "]", ".">>,
     <<"\n", "[", "[", "B", "a", "z", "]", "]", " ", "i", "s", " ", "n", "o", "t", "a",
         "b", "l", "e", ".">>,
     <<"T", "h", "e", " ", "c", "i", "t", "y", " ", " ", "h", "o", "s", "t", "s", " ", "[",
         "[", "E", "v", "e", "n", "t", "]", "]", ".">>,
     <<"*", " ", "[", "[", "L", "i", "s", "t", " ", "i", "t", "e", "m", "]", "]", "\n",
         "=", "=", " ", "[", "[", "H", "e", "a", "d", "i", "n", "g", "]", "]", " ", "=",
         "=", "\n", "1", "s", "t", " ", "[", "[", "O", "n", "e", "|", "1", "]", "]", " ",
         "t", "h", "e", "n", " ", "[", "[", "T", "w", "o", "]", "]", "\r", "\n", "l", "a",
         "s", "t", " ", "[", "[", "T", "h", "r", "e", "e", "]", "]">>,
     <<"a", " ", "[", "[", "b", "|", "]", "]", " ", "c">>,
     <<"a", " ", "[", "[", "b", "|", "]", "]", " ", "c", " ", "[", "[", "d", "]", "]", " ",
         "e">>}

ExtractInputs ==
    {p \o b : p \in LinkPrefixes, b \in SeqsUpTo({"a", "[", "]", "|"}, MaxLink)} \cup LinkTexts

FilterTexts ==
    {<<"'", "'", "'", "D", "o", "g", "'", "'", "'", " ", "i", "s", " ", "a", " ", "(", "d",
        "o", "m", "e", "s", "t", "i", "c", "a", "t", "e", "d", ")", " ", "a", "n", "i",
        "m", "a", "l", ".", " ", "S", "e", "e", " ", "[", "[", "C", "a", "n", "i", "n",
        "e", "]", "]", ".">>,
     <<"T", "h", "e", " ", "c", "i", "t", "y", " ", "<", "r", "e", "f", ">", "c", "i", "t",
         "e", ".", "c", "o", "m", "<", "/", "r", "e", "f", ">", " ", "h", "o", "s", "t",
         "s", " ", "[", "[", "E", "v", "e", "n", "t", "]", "]", ".">>,
     <<"{", "{", "I", "n", "f", "o", "b", "o", "x", "}", "}", "\n", "[", "[", "B", "a",
         "z", "]", "]", " ", "i", "s", " ", "n", "o", "t", "a", "b", "l", "e", ".">>,
     <<"a", " ", "(", "b", ")", " ", "c", " ", "(", "d", ")", "\n", "(", "\n", ")", " ",
         "(", ")", " ", "e">>,
     <<"{", "(", "a", ")", "{", "b", "}", "(", "c", ")", "}">>,
     <<"<", "(", "x", ")", "r", "e", "f", ">", "y", "<", "/", "(", "z", ")", "r", "e", "f",
         ">">>,
     <<"{", "{", "a", "\n", "b", "}", "}", " ", "<", "r", "e", "f", ">", "\n", "<", "/",
         "r", "e", "f", ">", " ", "<", "r", "e", "f", ">", "<", "/", "r", "e", "f", ">",
         " ", "{", "{", "}", "}">>}

FilterInputs == SeqsUpTo({"(", ")", "a", "\n"}, MaxText) \cup FilterTexts

Idle ==
    /\ input = <<>>
    /\ pos = 1
    /\ item = NoneItem
    /\ items = <<>>
    /\ out = <<>>

InitExtract == Idle /\ pc = "extract" /\ arg \in ExtractInputs /\ res = None

ApplyExtract ==
    /\ pc = "extract"
    /\ res' = Extract(arg)
    /\ pc' = "extracted"
    /\ UNCHANGED <<input, pos, item, items, out, arg>>

SpecExtract == InitExtract /\ [][ApplyExtract]_vars

InitFilter == Idle /\ pc = "filter" /\ arg \in FilterInputs /\ res = None

ApplyFilter ==
    /\ pc = "filter"
    /\ res' = Some(Filter(arg))
    /\ pc' = "filtered"
    /\ UNCHANGED <<input, pos, item, items, out, arg>>

SpecFilter == InitFilter /\ [][ApplyFilter]_vars

(***************************************************************************)
(* Segmentation of a well-formed input, stated on the input itself.        *)
(***************************************************************************)
NoReadFailure(inp) == \A i \in 1..Len(inp) : inp[i].r = "Ok"

OpenIdx(inp) == {i \in 1..Len(inp) : inp[i].r = "Ok" /\ Trim(inp[i].text) = "<page>"}
CloseIdx(inp) == {i \in 1..Len(inp) : inp[i].r = "Ok" /\ Trim(inp[i].text) = "</page>"}
MarkerIdx(inp) == OpenIdx(inp) \cup CloseIdx(inp)

\* The rank of marker line m among the marker lines.
Rank(inp, m) == Cardinality({k \in MarkerIdx(inp) : k <= m})

\* Pages are not nested and none is left open: the markers alternate, <page> first.
WellFormed(inp) ==
    /\ NoReadFailure(inp)
    /\ Cardinality(MarkerIdx(inp)) % 2 = 0
    /\ \A m \in MarkerIdx(inp) : (m \in OpenIdx(inp)) <=> (Rank(inp, m) % 2 = 1)

\* The index of the marker line of rank r.
MarkerAt(inp, r) == CHOOSE m \in MarkerIdx(inp) : Rank(inp, m) = r

\* The lines a..b of the input, each followed by a line terminator.
Region(inp, a, b) ==
    [j \in 1..(2 * (b - a + 1)) |-> IF j % 2 = 1 THEN inp[a + (j - 1) \div 2].text ELSE "\n"]

\* The page regions of a well-formed input, in input order.
PageRegions(inp) ==
    [k \in 1..(Cardinality(MarkerIdx(inp)) \div 2) |->
        Region(inp, MarkerAt(inp, 2 * k - 1), MarkerAt(inp, 2 * k))]

\* C1: on a well-formed input the items pulled so far are the first page regions
\* of the input, one Ok block per <page>...</page> pair, in input order, each
\* block being the lines from <page> through </page> with their terminators;
\* when the PageBuffer is exhausted every pair has been yielded.
C1_Segmentation ==
    WellFormed(input) =>
        LET regions == PageRegions(input) IN
        /\ Len(items) <= Len(regions)
        /\ \A k \in 1..Len(items) :
              /\ items[k].tag = "Ok"
              /\ items[k].buf = regions[k]
              /\ Trim(items[k].buf[1]) = "<page>"
              /\ Trim(items[k].buf[Len(items[k].buf) - 1]) = "</page>"
        /\ (pc = "done" => Len(items) = Len(regions))

\* Two pages were cut out of an input that has a line between them, a line
\* inside one of them and a marker line with surrounding blanks.
C1_Witness ==
    /\ pc = "done"
    /\ WellFormed(input)
    /\ Len(items) = 2
    /\ \E i \in 1..Len(input) :
          /\ ~(i \in MarkerIdx(input))
          /\ Rank(input, i) = 2
    /\ \E k \in 1..2 : Len(items[k].buf) > 4
    /\ \E k \in 1..2 : items[k].buf[Len(items[k].buf) - 1] # "</page>"

\* C2: after an error item no further item is produced.
C2_StopsAfterError ==
    \A k \in 1..Len(items) : items[k].tag = "Err" => k = Len(items)

(***************************************************************************)
(* The records of a sequence of blocks, as the contract of run states them.*)
(***************************************************************************)
Qualifies(buf) ==
    LET page == FromStr(buf) IN
    /\ page.ok
    /\ ~EndsWith(page.title, DISAMBIGUATION)
    /\ page.revision # <<>>
    /\ ~StartsWith(page.revision[1], REDIRECT)
    /\ Extract(Filter(page.revision[1])).some

RecordOf(buf) ==
    LET page == FromStr(buf) IN <<page.title, Extract(Filter(page.revision[1])).val>>

RECURSIVE RecordsOf(_)
RecordsOf(bufs) ==
    IF bufs = <<>> THEN <<>>
    ELSE (IF Qualifies(Head(bufs)) THEN <<RecordOf(Head(bufs))>> ELSE <<>>)
         \o RecordsOf(Tail(bufs))

\* The blocks that went through the chain: all that were pulled, but the one in hand.
Handled ==
    LET n == IF pc = "handle" THEN Len(items) - 1 ELSE Len(items) IN
    [k \in 1..n |-> items[k].buf]

\* C3: without read failures the records printed are those of the qualifying
\* blocks pulled so far, one per block, in the order of the blocks; on a
\* well-formed input they are, at the end, those of the page regions of the input.
C3_EmissionOrder ==
    NoReadFailure(input) =>
        /\ \A k \in 1..Len(items) : items[k].tag = "Ok"
        /\ out = RecordsOf(Handled)
        /\ (pc = "done" /\ WellFormed(input) => out = RecordsOf(PageRegions(input)))

\* Two different records were printed in input order around a page that was skipped.
C3_Witness ==
    /\ pc = "done"
    /\ WellFormed(input)
    /\ Len(items) = 3
    /\ Len(out) = 2
    /\ out[1] # out[2]
    /\ Qualifies(items[1].buf)
    /\ ~Qualifies(items[2].buf)
    /\ Qualifies(items[3].buf)

(***************************************************************************)
(* Exclusions.                                                             *)
(***************************************************************************)
IsRedirectItem(it) ==
    /\ it.tag = "Ok"
    /\ FromStr(it.buf).ok
    /\ FromStr(it.buf).revision # <<>>
    /\ StartsWith(FromStr(it.buf).revision[1], REDIRECT)

\* C4: a page whose first revision starts with #REDIRECT has no body text and
\* handling it prints nothing.
C4_RedirectExcluded ==
    [][(pc = "handle" /\ IsRedirectItem(item)) =>
          (~PageText(FromStr(item.buf)).some /\ out' = out)]_vars

\* A redirect page was handled whose title is kept, whose first revision has a
\* link on a later prose line and whose second revision has a link as well.
C4_Witness ==
    /\ pc = "pull"
    /\ IsRedirectItem(item)
    /\ KeepTitle(FromStr(item.buf))
    /\ Extract(Filter(FromStr(item.buf).revision[1])).some
    /\ Len(FromStr(item.buf).revision) >= 2
    /\ Extract(Filter(FromStr(item.buf).revision[2])).some

IsDisambiguationItem(it) ==
    /\ it.tag = "Ok"
    /\ FromStr(it.buf).ok
    /\ EndsWith(FromStr(it.buf).title, DISAMBIGUATION)

\* C5: handling a page whose title ends with (disambiguation) prints nothing.
C5_DisambiguationExcluded ==
    [][(pc = "handle" /\ IsDisambiguationItem(item)) => out' = out]_vars

\* A disambiguation page was handled whose first revision is no redirect and
\* holds a link that extraction returns.
C5_Witness ==
    /\ pc = "pull"
    /\ IsDisambiguationItem(item)
    /\ PageText(FromStr(item.buf)).some
    /\ Extract(Filter(PageText(FromStr(item.buf)).val)).some

\* C8: run terminates on every input.
C8_RunTerminates == <>(pc = "done")

(***************************************************************************)
(* The shape of a block.                                                   *)
(***************************************************************************)
\* The blocks returned on reading a </page> line (not the rest flushed at the end).
ClosedBlocks == {k \in 1..Len(items) : items[k].tag = "Ok" /\ items[k].via = "close"}

\* C10 as stated: every block returned before the end of the input is one page
\* region: <page> first, </page> last, no marker line in between.
C10_OnePageRegion ==
    NoReadFailure(input) =>
        \A k \in ClosedBlocks :
            LET ls == BlockLines(items[k].buf) IN
            /\ Len(ls) >= 2
            /\ Trim(ls[1]) = "<page>"
            /\ Trim(ls[Len(ls)]) = "</page>"
            /\ \A j \in 2..(Len(ls) - 1) : Trim(ls[j]) \notin {"<page>", "</page>"}

\* C10 amended: such a block ends with its only </page> line; it is that line
\* alone (a </page> read while no <page> was seen in the pull) or it starts
\* with a <page> line, and then it may hold further <page> lines.
C10_BlockShape ==
    NoReadFailure(input) =>
        \A k \in ClosedBlocks :
            LET ls == BlockLines(items[k].buf) IN
            /\ Len(ls) >= 1
            /\ Trim(ls[Len(ls)]) = "</page>"
            /\ \A j \in 1..(Len(ls) - 1) : Trim(ls[j]) # "</page>"
            /\ (Len(ls) = 1 \/ Trim(ls[1]) = "<page>")

\* A stray </page> came out as a block of its own after text outside any page,
\* and a block with a repeated <page> line came out as well.
C10_Witness ==
    /\ pc = "done"
    /\ NoReadFailure(input)
    /\ \E k \in ClosedBlocks : Len(BlockLines(items[k].buf)) = 1
    /\ \E k \in ClosedBlocks :
          \E j \in 2..(Len(BlockLines(items[k].buf)) - 1) :
              Trim(BlockLines(items[k].buf)[j]) = "<page>"
    /\ \E i \in 1..Len(input) : input[i] = OkLine("x")


(***************************************************************************)
(* Links, stated on the text: where the link expression matches.           *)
(***************************************************************************)
Min(S) == CHOOSE m \in S : \A n \in S : m <= n

Prose(line) == Len(line) >= 1 /\ (line[1] \in Alphanumeric \/ line[1] = "'")

\* [[ at i, a target i+2..e without |, then ]] or an alias |...]] of one character or more.
Match(line, i, e) ==
    /\ At(line, i, <<"[", "[">>)
    /\ i + 2 <= e /\ e <= Len(line)
    /\ \A j \in (i + 2)..e : line[j] # "|"
    /\ \/ At(line, e + 1, <<"]", "]">>)
       \/ /\ e + 1 <= Len(line)
          /\ line[e + 1] = "|"
          /\ \E q \in (e + 3)..Len(line) : At(line, q, <<"]", "]">>)

HasLink(line) == \E i \in 1..Len(line) : \E e \in 1..Len(line) : Match(line, i, e)

\* The target of the leftmost match, the shortest target at that start.
FirstLink(line) ==
    LET i == Min({a \in 1..Len(line) : \E e \in 1..Len(line) : Match(line, a, e)})
        e == Min({b \in 1..Len(line) : Match(line, i, b)})
    IN SubSeq(line, i + 2, e)

\* The qualifying lines of a text that hold a match.
LinkLines(text) ==
    {k \in 1..Len(StrLines(text)) : Prose(StrLines(text)[k]) /\ HasLink(StrLines(text)[k])}

\* C6: extract returns the target of the first match of the first qualifying
\* line that holds one, whatever the other lines hold, and none when no
\* qualifying line holds a match.
C6_FirstQualifyingLink ==
    pc = "extracted" =>
        IF LinkLines(arg) = {} THEN res = None
        ELSE res = Some(FirstLink(StrLines(arg)[Min(LinkLines(arg))]))

\* A link was returned although a line that does not qualify holds an earlier one.
C6_Witness ==
    /\ pc = "extracted"
    /\ res.some
    /\ \E k \in 1..Len(StrLines(arg)) :
          /\ k < Min(LinkLines(arg))
          /\ ~Prose(StrLines(arg)[k])
          /\ HasLink(StrLines(arg)[k])
          /\ FirstLink(StrLines(arg)[k]) # res.val

\* The first [[ of the line and the first | after it.
FirstOpen(line) == Min({i \in 1..Len(line) : At(line, i, <<"[", "[">>)})
FirstPipe(line) == Min({p \in (FirstOpen(line) + 2)..Len(line) : line[p] = "|"})

\* The first link construct of the line is [[T|A]]: a target of one character
\* or more, without | and without ]], then |, then a later ]].
AliasedFirst(line) ==
    /\ \E i \in 1..Len(line) : At(line, i, <<"[", "[">>)
    /\ \E p \in (FirstOpen(line) + 2)..Len(line) : line[p] = "|"
    /\ FirstPipe(line) >= FirstOpen(line) + 3
    /\ \A q \in (FirstOpen(line) + 2)..FirstPipe(line) : ~At(line, q, <<"]", "]">>)
    /\ \E q \in (FirstPipe(line) + 1)..Len(line) : At(line, q, <<"]", "]">>)

\* C7: when the first link construct of the first matching qualifying line is
\* [[T|A]], extract returns T; a returned target is never empty and holds no |.
C7_AliasExcluded ==
    pc = "extracted" =>
        /\ (res.some => res.val # <<>> /\ \A j \in 1..Len(res.val) : res.val[j] # "|")
        /\ LinkLines(arg) # {} =>
              LET line == StrLines(arg)[Min(LinkLines(arg))] IN
              AliasedFirst(line) =>
                  res = Some(SubSeq(line, FirstOpen(line) + 2, FirstPipe(line) - 1))

\* T was returned for [[T|A]] followed on its line by a link with an alias and
\* by one without.
C7_Witness ==
    /\ pc = "extracted"
    /\ LinkLines(arg) # {}
    /\ LET line == StrLines(arg)[Min(LinkLines(arg))] IN
       /\ AliasedFirst(line)
       /\ res = Some(SubSeq(line, FirstOpen(line) + 2, FirstPipe(line) - 1))
       /\ Cardinality({i \in 1..Len(line) : At(line, i, <<"[", "[">>)}) >= 3
       /\ Cardinality({p \in 1..Len(line) : line[p] = "|"}) >= 2

(***************************************************************************)
(* Parenthetical runs, stated on the text.                                 *)
(***************************************************************************)
\* The ")" that can end a run starting at the "(" at i: on the same line, d or
\* more places further.
Closers(s, i, d) ==
    {j \in (i + d)..Len(s) : s[j] = ")" /\ \A m \in (i + 1)..(j - 1) : s[m] # "\n"}

\* The text without its runs, left to right, each run ending at its first closer.
RECURSIVE DeleteRuns(_, _, _)
DeleteRuns(s, i, d) ==
    IF i > Len(s) THEN <<>>
    ELSE IF s[i] = "(" /\ Closers(s, i, d) # {}
    THEN DeleteRuns(s, Min(Closers(s, i, d)) + 1, d)
    ELSE <<s[i]>> \o DeleteRuns(s, i + 1, d)

NoRunLeft(s, d) == \A i \in 1..Len(s) : s[i] = "(" => Closers(s, i, d) = {}

NoMarkup(s) ==
    \A i \in 1..Len(s) :
        ~At(s, i, <<"{", "{">>) /\ ~At(s, i, <<"}", "}">>) /\ ~At(s, i, RefOpen)

\* C9 as stated: a run is the span from a ( to the next ) of its line; a text
\* without {{, }} and <ref> comes out without its runs and no ( of the output
\* is followed by a ) on its line.
C9_EveryRunRemoved ==
    (pc = "filtered" /\ NoMarkup(arg)) =>
        /\ res.val = DeleteRuns(arg, 1, 1)
        /\ NoRunLeft(res.val, 1)

\* C9 amended: a run holds one character or more between its ( and the ) that
\* ends it, so () alone is kept; a text that holds no {{, }} or <ref>, also
\* once its runs are deleted, comes out without its runs, and no ( of the
\* output is followed by a ) two or more places further on its line.
C9_NonEmptyRunsRemoved ==
    (pc = "filtered" /\ NoMarkup(arg) /\ NoMarkup(DeleteRuns(arg, 1, 2))) =>
        /\ res.val = DeleteRuns(arg, 1, 2)
        /\ NoRunLeft(res.val, 2)

\* Several runs of one line were removed, and a ( whose ) is on the next line
\* and an empty () were kept.
C9_Witness ==
    /\ pc = "filtered"
    /\ NoMarkup(arg)
    /\ NoMarkup(DeleteRuns(arg, 1, 2))
    /\ Len(res.val) + 6 <= Len(arg)
    /\ \E i \in 1..Len(res.val) : At(res.val, i, <<"(", ")">>)
    /\ \E i \in 1..Len(res.val) : At(res.val, i, <<"(", "\n", ")">>)

=============================================================================
